---------------------------- MODULE Spec2Model ----------------------------
(***************************************************************************)
(* The parser of dyl-compiler (src/dyl-compiler/src/parser.rs): a nom      *)
(* combinator parser over a LocatedSpan cursor that carries a reference to *)
(* a shared ParsingContext (the diagnostic sink).                          *)
(*                                                                         *)
(* A source text is a sequence of one-character strings.  A cursor is a    *)
(* position i in 1..Len(s)+1: the remaining text is SubSeq(s, i, Len(s)).  *)
(* The sink is append-only and every message is the same string, so a rule *)
(* threads the number n of messages recorded so far.                       *)
(*                                                                         *)
(* A rule returns a record                                                 *)
(*    k    : "Ok", "Error" (nom Err::Error, backtrackable), "Failure"      *)
(*           (nom Err::Failure), "Panic" (a Rust panic unwinding) or, from *)
(*           parse_input only, "Remains" (the ensure! on the tail failed)  *)
(*    pos  : the tail cursor (Ok) or the input of the NomError (Error)     *)
(*    val  : the parsed value                                              *)
(*    n    : the number of messages in the sink when the rule returns      *)
(*    miss : history: how many expect() calls of the derivation that was   *)
(*           returned produced None (the tokens missing from the result)   *)
(*    toks : history: the positions at which the tokens of the derivation  *)
(*           that was returned start                                       *)
(* The last two are not data of the program: they record facts about the   *)
(* run that the properties below refer to.                                 *)
(***************************************************************************)
EXTENDS Integers, Sequences, FiniteSets, TLC

VARIABLES
    parts,    \* the pieces the caller assembled the source text from
    input,    \* input_code: the source text handed to the parser
    cursor,   \* the position in input at which the rule is invoked
    sink0,    \* the number of messages in the sink when the rule is invoked
    rule,     \* the rule invoked ("none" before the call)
    arg,      \* the argument the rule was built with: keyword's kw, expect's parser
    status,   \* the rule's result
    errors    \* parsing_ctxt.errors(): the diagnostic sink after the call

vars == <<parts, input, cursor, sink0, rule, arg, status, errors>>

-----------------------------------------------------------------------------
(* Characters and strings *)

Chars(str) == [i \in 1..Len(str) |-> SubSeq(str, i, i)]

RECURSIVE Flatten(_)
Flatten(ps) == IF ps = <<>> THEN <<>> ELSE Chars(Head(ps)) \o Flatten(Tail(ps))

\* nom multispace0: space, tab, carriage return, line feed
Space == {" ", "\t", "\r", "\n"}

\* nom digit1: ASCII digits
Digit == {"0", "1", "2", "3", "4", "5", "6", "7", "8", "9"}

\* nom alpha1: ASCII letters
Alpha ==
    {"a", "b", "c", "d", "e", "f", "g", "h", "i", "j", "k", "l", "m",
     "n", "o", "p", "q", "r", "s", "t", "u", "v", "w", "x", "y", "z",
     "A", "B", "C", "D", "E", "F", "G", "H", "I", "J", "K", "L", "M",
     "N", "O", "P", "Q", "R", "S", "T", "U", "V", "W", "X", "Y", "Z"}

\* nom alphanumeric1
Alphanumeric == Alpha \cup Digit

\* char::is_alphabetic, on the ASCII texts of this model
is_alphabetic(c) == c \in Alpha

DigitValue(c) ==
    CASE c = "0" -> 0 [] c = "1" -> 1 [] c = "2" -> 2 [] c = "3" -> 3
      [] c = "4" -> 4 [] c = "5" -> 5 [] c = "6" -> 6 [] c = "7" -> 7
      [] c = "8" -> 8 [] c = "9" -> 9

-----------------------------------------------------------------------------
(* Results *)

Ok(pos, val, n, miss, toks) ==
    [k |-> "Ok", pos |-> pos, val |-> val, n |-> n, miss |-> miss, toks |-> toks]

Error(pos, n) ==
    [k |-> "Error", pos |-> pos, val |-> <<>>, n |-> n, miss |-> 0, toks |-> {}]

Failure(pos, n) ==
    [k |-> "Failure", pos |-> pos, val |-> <<>>, n |-> n, miss |-> 0, toks |-> {}]

Panic(pos, n) ==
    [k |-> "Panic", pos |-> pos, val |-> <<>>, n |-> n, miss |-> 0, toks |-> {}]

Unit == <<>>

-----------------------------------------------------------------------------
(* ast: the constructors the parser calls *)

ExprKind_integer(v) == <<"integer", v>>
ExprKind_ident(name) == <<"ident", name>>
ExprKind_addition(l, r) == <<"addition", l, r>>
ExprKind_subtraction(l, r) == <<"subtraction", l, r>>
ExprKind_multiplication(l, r) == <<"multiplication", l, r>>
ExprKind_if_(c, t, e) == <<"if_", c, t, e>>
ExprKind_bindings(bs, ending) == <<"bindings", bs, ending>>
Binding_new(name, value) == <<"Binding", name, value>>

-----------------------------------------------------------------------------
(* Sequencing.  A rule of the source is a chain of steps, each using the   *)
(* result of the one before; the three operators below write such a chain. *)

\* let x = v; K(x)
With(v, K(_)) == K(v)

\* let (tail, x) = r?; K: an Err of the step is returned as it is
Then(r, K(_)) == IF r.k = "Ok" THEN K(r) ELSE r

\* alt: the next alternative K runs when r is Err::Error; a success, a
\* Failure and a panic end the alternation
OrElse(r, K(_)) == IF r.k = "Error" THEN K(r) ELSE r

-----------------------------------------------------------------------------
(* Primitive matchers: they never touch the sink (n is 0 in their results, *)
(* Lift gives a result the sink of the caller)                             *)

Lift(r, n) == [r EXCEPT !.n = n]

\* the first position at or after i whose character is not in class
RECURSIVE SkipWhile(_, _, _)
SkipWhile(class, s, i) ==
    IF i <= Len(s) /\ s[i] \in class THEN SkipWhile(class, s, i + 1) ELSE i

multispace0(s, i) == SkipWhile(Space, s, i)

\* nom_tag(t): the literal t at the cursor
tag(t, s, i) ==
    IF i + Len(t) - 1 <= Len(s) /\ SubSeq(s, i, i + Len(t) - 1) = t
    THEN Ok(i + Len(t), t, 0, 0, {i})
    ELSE Error(i, 0)

\* one or more characters of class
Many1Of(class, s, i) ==
    With(SkipWhile(class, s, i), LAMBDA j :
        IF j = i THEN Error(i, 0) ELSE Ok(j, SubSeq(s, i, j - 1), 0, 0, {i}))

digit1(s, i) == Many1Of(Digit, s, i)
alpha1(s, i) == Many1Of(Alpha, s, i)
alphanumeric1(s, i) == Many1Of(Alphanumeric, s, i)

\* recognize(parser): the text between the cursor and the tail of r
recognize(r, s, i) ==
    IF r.k = "Ok" THEN [r EXCEPT !.val = SubSeq(s, i, r.pos - 1), !.toks = {i}]
    ELSE r

\* opt(parser): None, at the cursor, when r is Err::Error
opt(r, i) == IF r.k = "Error" THEN Ok(i, <<"None">>, 0, 0, {}) ELSE r

\* recognize(tuple((opt(tag("-")), digit1)))
minus_digits(s, i) ==
    recognize(Then(opt(tag(<<"-">>, s, i), i), LAMBDA m : digit1(s, m.pos)),
              s, i)

\* alt((alphanumeric1, tag("_")))
ident_continue(s, i) ==
    OrElse(alphanumeric1(s, i), LAMBDA e : tag(<<"_">>, s, i))

\* many0(alt((alphanumeric1, tag("_")))): the tail after the repetition.
\* many0 ends on Err::Error, and on a match that consumed nothing.
RECURSIVE ident_rest(_, _)
ident_rest(s, i) ==
    With(ident_continue(s, i), LAMBDA r :
        IF r.k = "Ok" /\ r.pos # i THEN ident_rest(s, r.pos)
        ELSE Ok(i, <<>>, 0, 0, {}))

\* recognize(pair(alt((alpha1, tag("_"))), many0(...)))
ident_chars(s, i) ==
    recognize(Then(OrElse(alpha1(s, i), LAMBDA e : tag(<<"_">>, s, i)),
                   LAMBDA first : ident_rest(s, first.pos)),
              s, i)

\* A parser handed to a combinator is a value: <<"tag", t>> for tag(t),
\* <<"minus_digits">> and <<"ident_chars">> for the two recognize(..)
\* parsers.  call runs it.
call(parser, s, i) ==
    CASE parser[1] = "tag" -> tag(parser[2], s, i)
      [] parser[1] = "minus_digits" -> minus_digits(s, i)
      [] parser[1] = "ident_chars" -> ident_chars(s, i)

\* terminated(parser, multispace0): a variant that does not skip the
\* whitespace in front of the token
space_sensitive(parser, s, i) ==
    Then(call(parser, s, i), LAMBDA r :
        [r EXCEPT !.pos = multispace0(s, r.pos)])

\* delimited(multispace0, parser, multispace0)
space_insignificant(parser, s, i) ==
    Then(call(parser, s, multispace0(s, i)), LAMBDA r :
        [r EXCEPT !.pos = multispace0(s, r.pos)])

-----------------------------------------------------------------------------
(* str::parse::<i32>, as integer calls it on the recognized fragment *)

I32_MAX == 2147483647
I32_MIN == -I32_MAX - 1

\* Option<i32>
Some_i32(v) == [some |-> TRUE, v |-> v]
None_i32 == [some |-> FALSE, v |-> 0]

\* i32::checked_mul(acc, 10), then checked_add (a positive literal) or
\* checked_sub (a negative one) of the digit
checked_step(acc, d, positive) ==
    IF positive
    THEN IF acc > I32_MAX \div 10 \/ acc * 10 > I32_MAX - d
         THEN None_i32 ELSE Some_i32(acc * 10 + d)
    ELSE IF acc < -(I32_MAX \div 10) \/ acc * 10 < I32_MIN + d
         THEN None_i32 ELSE Some_i32(acc * 10 - d)

RECURSIVE from_str_digits(_, _, _, _)
from_str_digits(frag, j, acc, positive) ==
    IF j > Len(frag) THEN Some_i32(acc)
    ELSE With(checked_step(acc, DigitValue(frag[j]), positive), LAMBDA nxt :
             IF nxt.some THEN from_str_digits(frag, j + 1, nxt.v, positive)
             ELSE None_i32)

\* Result<i32, ParseIntError> as an option: None for PosOverflow and
\* NegOverflow (the fragment is always -?[0-9]+)
from_str_i32(frag) ==
    IF frag[1] = "-"
    THEN from_str_digits(frag, 2, 0, FALSE)
    ELSE from_str_digits(frag, 1, 0, TRUE)

-----------------------------------------------------------------------------
(* Token rules *)

\* |i| ExprKind::integer(i.fragment().parse().unwrap()): an Err of parse
\* panics
integer_of_fragment(r, v) ==
    IF v.some THEN [r EXCEPT !.val = ExprKind_integer(v.v)]
    ELSE Panic(r.pos, 0)

integer(s, i) ==
    Then(space_insignificant(<<"minus_digits">>, s, i), LAMBDA r :
        integer_of_fragment(r, from_str_i32(r.val)))

ident(s, i) == space_insignificant(<<"ident_chars">>, s, i)

ident_expr(s, i) ==
    Then(ident(s, i), LAMBDA r : [r EXCEPT !.val = ExprKind_ident(r.val)])

\* a variant of keyword that does not look at the character after it
never_alphabetic(s, tail) == FALSE

\* the character after the keyword, if any, is alphabetic
next_is_alphabetic(s, tail) == tail <= Len(s) /\ is_alphabetic(s[tail])

keyword(kw, s, i) ==
    Then(tag(kw, s, multispace0(s, i)), LAMBDA t :
        IF next_is_alphabetic(s, t.pos) THEN Error(i, 0)
        ELSE Ok(multispace0(s, t.pos), Unit, 0, 0, t.toks))

if_(s, i) == keyword(Chars("if"), s, i)
else_(s, i) == keyword(Chars("else"), s, i)
let_(s, i) == keyword(Chars("let"), s, i)

\* map(space_insignificant(tag(t)), drop)
punctuation(t, s, i) ==
    Then(space_insignificant(<<"tag", t>>, s, i), LAMBDA r :
        [r EXCEPT !.val = Unit])

equal(s, i) == punctuation(<<"=">>, s, i)
semicolon(s, i) == punctuation(<<";">>, s, i)
left_curly(s, i) == punctuation(<<"{">>, s, i)
right_curly(s, i) == punctuation(<<"}">>, s, i)
star(s, i) == punctuation(<<"*">>, s, i)

\* the match arm of level_0_operator
Level0Operator(operator) == IF operator = <<"+">> THEN "Plus" ELSE "Minus"

\* map(alt((tag("+"), tag("-"))), ..): no whitespace is skipped on either side
level_0_operator(s, i) ==
    Then(OrElse(tag(<<"+">>, s, i), LAMBDA e : tag(<<"-">>, s, i)), LAMBDA r :
        [r EXCEPT !.val = Level0Operator(r.val)])

make_expr(operator, lhs, rhs) ==
    IF operator = "Plus" THEN ExprKind_addition(lhs, rhs)
    ELSE ExprKind_subtraction(lhs, rhs)

-----------------------------------------------------------------------------
(* Error recovery *)

\* a variant of the recovery that resumes one character after the cursor
\* it was given
skipping_recovery(at, n) == [some |-> TRUE, tail |-> at + 1, n |-> n + 1]

\* epsilon_recovery: one message is added and the cursor it was given is
\* the continuation point.  [some, tail, n]: Option<Input> and the sink.
epsilon_recovery(at, n) == [some |-> TRUE, tail |-> at, n |-> n + 1]

\* the two parsers binding hands to expect
expected(parser, s, i) ==
    CASE parser = "equal" -> equal(s, i)
      [] parser = "semicolon" -> semicolon(s, i)

\* the Err arm of expect: recovery ran on the input of the NomError
recovered(r, rec) ==
    IF rec.some THEN Ok(rec.tail, <<"None">>, rec.n, 1, {})
    ELSE Ok(r.pos, <<"None">>, rec.n, 1, {})

\* a variant of expect without recovery: the Err of the parser is returned
require_match(r, n) ==
    IF r.k = "Ok" THEN Ok(r.pos, <<"Some", r.val>>, n, 0, r.toks)
    ELSE Lift(r, n)

\* the match of expect on what the parser returned: Some(data) when it
\* matched; on Error and on Failure the recovery runs and the result is
\* Ok((tail, None)).  A panic is not a value expect sees.
expect_match(r, n) ==
    IF r.k = "Ok" THEN Ok(r.pos, <<"Some", r.val>>, n, 0, r.toks)
    ELSE IF r.k = "Panic" THEN Lift(r, n)
    ELSE recovered(r, epsilon_recovery(r.pos, n))

\* expect(parser, epsilon_recovery)
expect(parser, s, i, n) == expect_match(expected(parser, s, i), n)

-----------------------------------------------------------------------------
(* Grammar rules: rule(s, i, n) runs at cursor i with n messages in the    *)
(* sink.  A rule names another rule through rule_, which is what makes the *)
(* grammar recursive.                                                      *)

RECURSIVE rule_(_, _, _, _)
RECURSIVE level_0_fold(_, _, _, _, _, _)
RECURSIVE level_0_fold_right(_, _, _, _, _, _)
RECURSIVE level_1_fold(_, _, _, _, _, _)
RECURSIVE many1_binding(_, _, _, _, _, _)

\* what a repetition has gathered: the missing tokens and the token starts
\* of the results folded so far, and those of one more result
History(r) == [miss |-> r.miss, toks |-> r.toks]
Extend(hist, r) == [miss |-> hist.miss + r.miss, toks |-> hist.toks \cup r.toks]

\* alt((integer, if_else, block, ident_expr))
atomic_expr(s, i, n) ==
    OrElse(Lift(integer(s, i), n), LAMBDA a :
    OrElse(rule_("if_else", s, i, a.n), LAMBDA b :
    OrElse(rule_("block", s, i, b.n), LAMBDA c :
    Lift(ident_expr(s, i), c.n))))

\* tuple((star, atomic_expr))
star_atomic_expr(s, i, n) ==
    Then(Lift(star(s, i), n), LAMBDA st :
    Then(rule_("atomic_expr", s, st.pos, n), LAMBDA rhs :
    [rhs EXCEPT !.toks = st.toks \cup rhs.toks]))

\* fold_many1(tuple((star, atomic_expr)), first, multiplication) at cursor
\* i, with count pairs folded into acc.  The first pair must match; the
\* repetition ends at the first pair that is Err::Error; a later pair that
\* matches without consuming is a Failure.
level_1_fold(s, i, n, acc, count, hist) ==
    With(star_atomic_expr(s, i, n), LAMBDA pair :
        IF pair.k = "Error"
        THEN IF count = 0 THEN Error(i, pair.n)
             ELSE Ok(i, acc, pair.n, hist.miss, hist.toks)
        ELSE IF pair.k # "Ok" THEN pair
        ELSE IF count > 0 /\ pair.pos = i THEN Failure(pair.pos, pair.n)
        ELSE level_1_fold(s, pair.pos, pair.n,
                          ExprKind_multiplication(acc, pair.val), count + 1,
                          Extend(hist, pair)))

level_1_expression(s, i, n) ==
    Then(rule_("atomic_expr", s, i, n), LAMBDA first :
        level_1_fold(s, first.pos, first.n, first.val, 0, History(first)))

\* a variant of the additive level whose operands are atomic only
level_0_operand_atomic(s, i, n) == rule_("atomic_expr", s, i, n)

\* alt((level_1_expression, atomic_expr)): an operand of the additive level
level_0_operand(s, i, n) ==
    OrElse(rule_("level_1_expression", s, i, n), LAMBDA a :
        rule_("atomic_expr", s, i, a.n))

\* tuple((level_0_operator, alt((level_1_expression, atomic_expr)))): the
\* value is <<operator, right>>
operator_operand(s, i, n) ==
    Then(Lift(level_0_operator(s, i), n), LAMBDA op :
    Then(rule_("level_0_operand", s, op.pos, n), LAMBDA rhs :
    [rhs EXCEPT !.val = <<op.val, rhs.val>>, !.toks = op.toks \cup rhs.toks]))

\* a variant of the fold that groups to the right: acc op (the rest)
level_0_fold_right(s, i, n, acc, count, hist) ==
    With(operator_operand(s, i, n), LAMBDA pair :
        IF pair.k = "Error"
        THEN IF count = 0 THEN Error(i, pair.n)
             ELSE Ok(i, acc, pair.n, hist.miss, hist.toks)
        ELSE IF pair.k # "Ok" THEN pair
        ELSE Then(level_0_fold_right(s, pair.pos, pair.n, pair.val[2],
                                     count + 1, Extend(hist, pair)),
                  LAMBDA rest :
                      [rest EXCEPT !.val = make_expr(pair.val[1], acc, rest.val)]))

\* fold_many1(tuple((level_0_operator, ..)), first, make_expr)
level_0_fold(s, i, n, acc, count, hist) ==
    With(operator_operand(s, i, n), LAMBDA pair :
        IF pair.k = "Error"
        THEN IF count = 0 THEN Error(i, pair.n)
             ELSE Ok(i, acc, pair.n, hist.miss, hist.toks)
        ELSE IF pair.k # "Ok" THEN pair
        ELSE IF count > 0 /\ pair.pos = i THEN Failure(pair.pos, pair.n)
        ELSE level_0_fold(s, pair.pos, pair.n,
                          make_expr(pair.val[1], acc, pair.val[2]), count + 1,
                          Extend(hist, pair)))

level_0_expression(s, i, n) ==
    Then(rule_("level_0_operand", s, i, n), LAMBDA first :
        level_0_fold(s, first.pos, first.n, first.val, 0, History(first)))

\* alt((level_0_expression, level_1_expression, atomic_expr))
expr(s, i, n) ==
    OrElse(rule_("level_0_expression", s, i, n), LAMBDA a :
    OrElse(rule_("level_1_expression", s, i, a.n), LAMBDA b :
    rule_("atomic_expr", s, i, b.n)))

if_else(s, i, n) ==
    Then(Lift(if_(s, i), n), LAMBDA kw :
    Then(rule_("expr", s, kw.pos, n), LAMBDA condition :
    Then(rule_("block", s, condition.pos, condition.n), LAMBDA consequent :
    Then(Lift(else_(s, consequent.pos), consequent.n), LAMBDA el :
    Then(rule_("block", s, el.pos, consequent.n), LAMBDA alternative :
    Ok(alternative.pos,
       ExprKind_if_(condition.val, consequent.val, alternative.val),
       alternative.n,
       condition.miss + consequent.miss + alternative.miss,
       kw.toks \cup condition.toks \cup consequent.toks
           \cup el.toks \cup alternative.toks))))))

\* alt((bindings, expr))
program(s, i, n) ==
    OrElse(rule_("bindings", s, i, n), LAMBDA a : rule_("expr", s, i, a.n))

\* delimited(left_curly, alt((bindings, expr)), right_curly)
block(s, i, n) ==
    Then(Lift(left_curly(s, i), n), LAMBDA l :
    Then(rule_("program", s, l.pos, n), LAMBDA body :
    Then(Lift(right_curly(s, body.pos), body.n), LAMBDA r :
    Ok(r.pos, body.val, body.n, body.miss,
       l.toks \cup body.toks \cup r.toks))))

binding(s, i, n) ==
    Then(Lift(let_(s, i), n), LAMBDA kw :
    Then(Lift(ident(s, kw.pos), n), LAMBDA name :
    Then(expect("equal", s, name.pos, n), LAMBDA eq :
    Then(rule_("expr", s, eq.pos, eq.n), LAMBDA value :
    Then(expect("semicolon", s, value.pos, value.n), LAMBDA sc :
    Ok(sc.pos, Binding_new(name.val, value.val), sc.n,
       eq.miss + value.miss + sc.miss,
       kw.toks \cup name.toks \cup eq.toks \cup value.toks \cup sc.toks))))))

\* many1(binding) at cursor i, with the count bindings bs parsed so far.
\* The first binding must match; the repetition ends at the first binding
\* that is Err::Error; a later binding that matches without consuming is
\* an Err::Error.
many1_binding(s, i, n, bs, count, hist) ==
    With(rule_("binding", s, i, n), LAMBDA b :
        IF b.k = "Error"
        THEN IF count = 0 THEN b ELSE Ok(i, bs, b.n, hist.miss, hist.toks)
        ELSE IF b.k # "Ok" THEN b
        ELSE IF count > 0 /\ b.pos = i THEN Error(i, b.n)
        ELSE many1_binding(s, b.pos, b.n, Append(bs, b.val), count + 1,
                           Extend(hist, b)))

bindings(s, i, n) ==
    Then(many1_binding(s, i, n, <<>>, 0, [miss |-> 0, toks |-> {}]), LAMBDA bs :
    Then(rule_("expr", s, bs.pos, bs.n), LAMBDA ending :
    Ok(ending.pos, ExprKind_bindings(bs.val, ending.val), ending.n,
       bs.miss + ending.miss, bs.toks \cup ending.toks)))

rule_(name, s, i, n) ==
    CASE name = "expr" -> expr(s, i, n)
      [] name = "level_0_expression" -> level_0_expression(s, i, n)
      [] name = "level_1_expression" -> level_1_expression(s, i, n)
      [] name = "level_0_operand" -> level_0_operand(s, i, n)
      [] name = "atomic_expr" -> atomic_expr(s, i, n)
      [] name = "if_else" -> if_else(s, i, n)
      [] name = "block" -> block(s, i, n)
      [] name = "program" -> program(s, i, n)
      [] name = "bindings" -> bindings(s, i, n)
      [] name = "binding" -> binding(s, i, n)

\* a variant of parse_input without the ensure!: the tail is dropped
keep_tail(r, s) == r

\* the ensure! of parse_input on what program returned
ensure_tail_is_empty(r, s) ==
    IF r.k = "Ok" /\ r.pos <= Len(s)
    THEN [r EXCEPT !.k = "Remains", !.val = <<>>]
    ELSE r

\* parse_input: (parsing_status, parsing_ctxt).  The status is Ok(expr) when
\* program matches and the tail is empty; a non-empty tail is the ensure!
\* error; a NomError is returned without its input.
parse_input(s) == ensure_tail_is_empty(program(s, 1, 0), s)

-----------------------------------------------------------------------------
(* The state machine: a caller assembles a source text from pieces and     *)
(* invokes one rule on it, once.  The rules other than parse_input are     *)
(* invoked as the tests' parse_and_own does: on a fresh ParsingContext.    *)

\* every sequence of at most k pieces of V
Texts(V, k) == UNION {[1..m -> V] : m \in 0..k}

\* the state before any rule has run
NoStatus == [k |-> "none", pos |-> 0, val |-> <<>>, n |-> 0, miss |-> 0, toks |-> {}]

\* the sink holding n messages: epsilon_recovery adds the same string each time
Messages(n) == [j \in 1..n |-> "Excepted token"]

\* LocatedSpan::new_extra(input, &ParsingContext::new())
Start(T) ==
    /\ parts \in T
    /\ input = Flatten(parts)
    /\ cursor = 1
    /\ sink0 = 0
    /\ rule = "none"
    /\ arg = ""
    /\ status = NoStatus
    /\ errors = <<>>

\* a rule invoked in the middle of a parse: at any cursor of the text, on a
\* sink that holds up to k messages already
StartAt(T, k) ==
    /\ parts \in T
    /\ input = Flatten(parts)
    /\ cursor \in 1..(Len(input) + 1)
    /\ sink0 \in 0..k
    /\ rule = "none"
    /\ arg = ""
    /\ status = NoStatus
    /\ errors = <<>>

Return(name, a, r) ==
    /\ rule = "none"
    /\ rule' = name
    /\ arg' = a
    /\ status' = r
    /\ errors' = Messages(r.n)
    /\ UNCHANGED <<parts, input, cursor, sink0>>

Call_parse_input == Return("parse_input", "", parse_input(input))
Call_program == Return("program", "", program(input, cursor, sink0))
Call_expr == Return("expr", "", expr(input, cursor, sink0))
Call_level_0_expression ==
    Return("level_0_expression", "", level_0_expression(input, cursor, sink0))
Call_binding == Return("binding", "", binding(input, cursor, sink0))
Call_integer == Return("integer", "", Lift(integer(input, cursor), sink0))

\* one iteration of the folds of level_0_expression and level_1_expression
Call_operator_operand ==
    Return("operator_operand", "", operator_operand(input, cursor, sink0))
Call_star_atomic_expr ==
    Return("star_atomic_expr", "", star_atomic_expr(input, cursor, sink0))

Keywords == {"if", "else", "let"}

Call_keyword ==
    \E kw \in Keywords :
        Return("keyword", kw, Lift(keyword(Chars(kw), input, cursor), sink0))

Call_expect ==
    \E parser \in {"equal", "semicolon"} :
        Return("expect", parser, expect(parser, input, cursor, sink0))

-----------------------------------------------------------------------------
(* Spec: parse_input on programs assembled from statements, operands,      *)
(* braces and keywords, well formed or not.                                *)

ProgramPieces ==
    {"let a=1;", "let a 1;", "let b=2", "{", "}", "a", "+1", " x"}

MaxPieces == 4

Init == Start(Texts(ProgramPieces, MaxPieces))

Next == Call_parse_input

Spec == Init /\ [][Next]_vars

\* what parse_input returns when it returns an Err: a NomError of program
\* or the ensure! error
TerminalFailure == {"Error", "Failure", "Remains"}

\* C4: parse_input either fully succeeds or fully fails: whenever it returns
\* a terminal failure, the sink it hands back holds no diagnostics.
NoHybridOutcome ==
    (rule = "parse_input" /\ status.k \in TerminalFailure) => errors = <<>>

\* C5: parse_input returns an AST exactly when program succeeds and its tail
\* is empty, and the AST is program's; when program succeeds with a
\* non-empty tail parse_input returns a failure and no AST, while the text
\* without that tail is accepted with the AST program returned.
WholeProgramConsumption ==
    rule = "parse_input" =>
        LET r == program(input, 1, 0)
        IN  /\ status.k = "Ok" <=> (r.k = "Ok" /\ r.pos = Len(input) + 1)
            /\ status.k = "Ok" => status.val = r.val
            /\ status.k # "Ok" => status.val = <<>>
            /\ (r.k = "Ok" /\ r.pos <= Len(input)) =>
                   /\ status.k \in TerminalFailure
                   /\ LET cut == parse_input(SubSeq(input, 1, r.pos - 1))
                      IN  cut.k = "Ok" /\ cut.val = r.val

\* "let a=1;a x": program succeeds and " x"... remains
TrailingTextRejected ==
    /\ rule = "parse_input"
    /\ parts = <<"let a=1;", "a", " x">>
    /\ status.k = "Remains"
    /\ status.pos = Len(input)
    /\ parse_input(Flatten(<<"let a=1;", "a">>)).k = "Ok"

\* C10: after a successful parse_input the sink holds one message per `=`
\* or `;` missing from the binding clauses of the returned AST.
EachMissingTokenReportedOnce ==
    (rule = "parse_input" /\ status.k = "Ok") => Len(errors) = status.miss

-----------------------------------------------------------------------------
(* SpecExpr: the expression rules on operands joined by operators *)

OperandPieces == {"1", "2", "42", " a ", "2*a"}
AdditiveOperators == {"+", "-"}
Operators == AdditiveOperators \cup {"*"}
MaxOperands == 3

\* a[1] o[1] a[2] .. o[m-1] a[m]
Interleave(a, o) ==
    [j \in 1..(2 * Len(a) - 1) |->
        IF j % 2 = 1 THEN a[(j + 1) \div 2] ELSE o[j \div 2]]

\* up to k operands of A joined by operators of O
Alternating(A, O, k) ==
    UNION {{Interleave(a, o) : a \in [1..m -> A], o \in [1..(m - 1) -> O]} :
           m \in 1..k}

InitExpr == Start(Alternating(OperandPieces, Operators, MaxOperands))

NextExpr == Call_level_0_expression \/ Call_expr \/ Call_program

SpecExpr == InitExpr /\ [][NextExpr]_vars

ExpressionRules == {"level_0_expression", "expr", "program"}

\* the node of an operand piece: what the operand rule of the additive
\* level returns on the piece alone
Operand(piece) == level_0_operand(Chars(piece), 1, 0)

\* the node of an atomic piece
Atom(piece) == atomic_expr(Chars(piece), 1, 0)

\* a rule that accepts the whole text
Whole(r, text) == r.k = "Ok" /\ r.pos = Len(text) + 1

\* the node an additive operator stands for
Node(operator, lhs, rhs) ==
    IF operator = "+" THEN ExprKind_addition(lhs, rhs)
    ELSE ExprKind_subtraction(lhs, rhs)

\* parts is a op1 b op2 c with additive operators and operands that are
\* atomic or multiplicative terms
ThreeOperandSum ==
    /\ Len(parts) = 5
    /\ parts[2] \in AdditiveOperators
    /\ parts[4] \in AdditiveOperators
    /\ \A j \in {1, 3, 5} : Whole(Operand(parts[j]), Chars(parts[j]))

\* C1: the additive level is left-associative: level_0_expression, expr and
\* program on "a op1 b op2 c" accept the whole text and return
\* op2(op1(a, b), c), never op1(a, op2(b, c)).
AdditiveLevelLeftAssociative ==
    (rule \in ExpressionRules /\ ThreeOperandSum) =>
        /\ Whole(status, input)
        /\ status.val =
               Node(parts[4],
                    Node(parts[2], Operand(parts[1]).val, Operand(parts[3]).val),
                    Operand(parts[5]).val)
        /\ status.val #
               Node(parts[2],
                    Operand(parts[1]).val,
                    Node(parts[4], Operand(parts[3]).val, Operand(parts[5]).val))

\* "42-1+2*a" is add(sub(42, 1), mul(2, a))
MixedSumGroupedLeft ==
    /\ rule = "level_0_expression"
    /\ parts = <<"42", "-", "1", "+", "2*a">>
    /\ ThreeOperandSum
    /\ status.val =
           ExprKind_addition(
               ExprKind_subtraction(ExprKind_integer(42), ExprKind_integer(1)),
               ExprKind_multiplication(ExprKind_integer(2),
                                       ExprKind_ident(<<"a">>)))

\* parts is a * b op c or a op b * c with atomic a, b, c and additive op
ProductAndTerm ==
    /\ Len(parts) = 5
    /\ \/ parts[2] = "*" /\ parts[4] \in AdditiveOperators
       \/ parts[2] \in AdditiveOperators /\ parts[4] = "*"
    /\ \A j \in {1, 3, 5} : Whole(Atom(parts[j]), Chars(parts[j]))

\* C2: multiplication binds tighter than addition and subtraction on both
\* sides of the additive operator: "a * b op c" is op(mul(a, b), c) and
\* "a op b * c" is op(a, mul(b, c)).
MultiplicationBindsTighter ==
    (rule \in ExpressionRules /\ ProductAndTerm) =>
        /\ Whole(status, input)
        /\ status.val =
               IF parts[2] = "*"
               THEN Node(parts[4],
                         ExprKind_multiplication(Atom(parts[1]).val,
                                                 Atom(parts[3]).val),
                         Atom(parts[5]).val)
               ELSE Node(parts[2],
                         Atom(parts[1]).val,
                         ExprKind_multiplication(Atom(parts[3]).val,
                                                 Atom(parts[5]).val))

\* "42*2+1" is add(mul(42, 2), 1) and " a -2*1" is sub(a, mul(2, 1))
ProductOnEitherSide ==
    /\ rule = "expr"
    /\ ProductAndTerm
    /\ \/ /\ parts = <<"42", "*", "2", "+", "1">>
          /\ status.val =
                 ExprKind_addition(
                     ExprKind_multiplication(ExprKind_integer(42),
                                             ExprKind_integer(2)),
                     ExprKind_integer(1))
       \/ /\ parts = <<" a ", "-", "2", "*", "1">>
          /\ status.val =
                 ExprKind_subtraction(
                     ExprKind_ident(<<"a">>),
                     ExprKind_multiplication(ExprKind_integer(2),
                                             ExprKind_integer(1)))

-----------------------------------------------------------------------------
(* SpecBinding: the binding rule on "let", a name, an expression, with or  *)
(* without the `=` and the `;`                                             *)

Names == {"x", "_y1"}
EqualPieces == {"=", " = ", " "}
SemicolonPieces == {";", " ; ", ""}
ExprPieces == {"42", "-", "a", "*", "{2}"}
MaxExprPieces == 3

\* let <name> <equal> <expression pieces> <semicolon>
BindingTexts ==
    {<<"let ", x, eq>> \o e \o <<semi>> :
        x \in Names, eq \in EqualPieces,
        e \in Texts(ExprPieces, MaxExprPieces), semi \in SemicolonPieces}

InitBinding == Start(BindingTexts)

NextBinding == Call_binding

SpecBinding == InitBinding /\ [][NextBinding]_vars

\* the parts of the text of a binding
BoundName == parts[2]
BoundExpr == Flatten(SubSeq(parts, 4, Len(parts) - 1))
MissingEqual == parts[3] = " "
MissingSemicolon == parts[Len(parts)] = ""

\* the well-formed text "let x=e;" and the binding rule on it
WellFormedText == Flatten(<<"let ", BoundName, "=">>) \o BoundExpr \o <<";">>
WellFormedBinding == binding(WellFormedText, 1, 0)

\* C3: recovery does not abort a binding: when e is an expression, the
\* binding rule on "let x e;" and on "let x = e" succeeds, returns the
\* Binding(x, e) that "let x=e;" returns, and leaves at least one message
\* in the sink.
RecoveryKeepsBinding ==
    (/\ rule = "binding"
     /\ Whole(expr(BoundExpr, 1, 0), BoundExpr)
     /\ MissingEqual # MissingSemicolon) =>
        /\ Whole(status, input)
        /\ Whole(WellFormedBinding, WellFormedText)
        /\ WellFormedBinding.n = 0
        /\ status.val = WellFormedBinding.val
        /\ status.val = Binding_new(Chars(BoundName), expr(BoundExpr, 1, 0).val)
        /\ Len(errors) >= 1

\* "let x 42;" and "let x = 42" are the binding of x to 42, with one message
BindingRecovered ==
    /\ rule = "binding"
    /\ \/ parts = <<"let ", "x", " ", "42", ";">>
       \/ parts = <<"let ", "x", " = ", "42", "">>
    /\ status.k = "Ok"
    /\ status.val = Binding_new(<<"x">>, ExprKind_integer(42))
    /\ errors = Messages(1)

-----------------------------------------------------------------------------
(* SpecKeyword: keyword(kw) on texts of keywords, letters, digits, braces  *)
(* and whitespace                                                          *)

KeywordPieces == {"if", "else", "let", "f", "4", "{", " ", "\n"}
MaxKeywordPieces == 3

InitKeyword == Start(Texts(KeywordPieces, MaxKeywordPieces))

NextKeyword == Call_keyword

SpecKeyword == InitKeyword /\ [][NextKeyword]_vars

\* the first position at or after i that does not hold whitespace
FirstNonSpace(s, i) ==
    CHOOSE j \in i..(Len(s) + 1) :
        /\ \A m \in i..(j - 1) : s[m] \in Space
        /\ j = Len(s) + 1 \/ s[j] \notin Space

\* the text s holds the word w at position i
Holds(s, i, w) == i + Len(w) - 1 <= Len(s) /\ SubSeq(s, i, i + Len(w) - 1) = w

\* the text, after optional whitespace, starts with the keyword and the
\* character after the keyword is absent or not alphabetic
KeywordAtCursor ==
    LET at == FirstNonSpace(input, cursor)
        after == at + Len(Chars(arg))
    IN  /\ Holds(input, at, Chars(arg))
        /\ after = Len(input) + 1 \/ input[after] \notin Alpha

\* C6: keyword(kw) succeeds exactly when the text, after optional
\* whitespace, starts with kw and the next character is absent or not
\* alphabetic; on success the cursor is past kw and the whitespace after
\* it; a rejection is an Err::Error whose input is the text of the call
\* with at most its leading whitespace removed.
KeywordBoundary ==
    rule = "keyword" =>
        /\ status.k = "Ok" <=> KeywordAtCursor
        /\ status.k = "Ok" =>
               status.pos =
                   FirstNonSpace(input,
                       FirstNonSpace(input, cursor) + Len(Chars(arg)))
        /\ status.k # "Ok" =>
               /\ status.k = "Error"
               /\ status.pos \in {cursor, FirstNonSpace(input, cursor)}
               /\ errors = <<>>

\* keyword("if") rejects "iff" and accepts "if", "if4" and "if \n"
IfBoundaries ==
    /\ rule = "keyword"
    /\ arg = "if"
    /\ \/ parts = <<"if", "f">> /\ status.k = "Error" /\ status.pos = 1
       \/ parts = <<"if">> /\ status.k = "Ok" /\ status.pos = 3
       \/ parts = <<"if", "4">> /\ status.k = "Ok" /\ status.pos = 3
       \/ parts = <<"if", " ", "\n">> /\ status.k = "Ok" /\ status.pos = 5

-----------------------------------------------------------------------------
(* SpecInteger: the integer rule on texts of digits, signs, whitespace and *)
(* literals at the ends of the i32 range                                   *)

IntegerPieces ==
    {"-", " ", "0", "1", "9", "a", "2147483647", "2147483648"}
MaxIntegerPieces == 3

InitInteger == Start(Texts(IntegerPieces, MaxIntegerPieces))

NextInteger == Call_integer

SpecInteger == InitInteger /\ [][NextInteger]_vars

\* C7: the outcome of the integer rule on every text is a success with an
\* i32 literal or an Err::Error; it is a success on every text that is,
\* after optional whitespace, an optional '-' and one or more digits.
IntegerSucceedsOrErrors ==
    rule = "integer" =>
        /\ status.k \in {"Ok", "Error"}
        /\ status.k = "Ok" =>
               /\ status.val[1] = "integer"
               /\ status.val[2] \in I32_MIN..I32_MAX
        /\ LET at == FirstNonSpace(input, 1)
               digits == IF Holds(input, at, <<"-">>) THEN at + 1 ELSE at
           IN  status.k = "Ok" <=>
                   (digits <= Len(input) /\ input[digits] \in Digit)

-----------------------------------------------------------------------------
(* SpecExpect: expect(equal, epsilon_recovery) and expect(semicolon,       *)
(* epsilon_recovery) at any cursor of a text, on a sink in use             *)

ExpectPieces == {"=", ";", " ", "\n", "a", "1"}
MaxExpectPieces == 3
MaxSink == 2

InitExpect == StartAt(Texts(ExpectPieces, MaxExpectPieces), MaxSink)

NextExpect == Call_expect

SpecExpect == InitExpect /\ [][NextExpect]_vars

\* the token of the parser handed to expect
Token(parser) == IF parser = "equal" THEN <<"=">> ELSE <<";">>

\* C9: expect(p, epsilon_recovery) never fails and skips no input.  When
\* the token is missing the value is None, one message has been added to
\* the sink and the cursor is where the token would have started: at the
\* first character that is not whitespace.  When the token is there the
\* value is Some, the cursor is the one p returned and the sink is as it
\* was.
ExpectNeverFails ==
    rule = "expect" =>
        LET p == expected(arg, input, cursor)
            at == FirstNonSpace(input, cursor)
        IN  /\ status.k = "Ok"
            /\ p.k = "Ok" <=> Holds(input, at, Token(arg))
            /\ p.k = "Ok" =>
                   /\ status.val = <<"Some", p.val>>
                   /\ status.pos = p.pos
                   /\ status.pos = FirstNonSpace(input, at + 1)
                   /\ errors = Messages(sink0)
            /\ p.k # "Ok" =>
                   /\ status.val = <<"None">>
                   /\ status.pos = at
                   /\ errors = Messages(sink0 + 1)

\* expect(equal) on " \na" at its start, on a sink of one message: None,
\* the cursor at "a", two messages
MissingTokenReported ==
    /\ rule = "expect"
    /\ arg = "equal"
    /\ parts = <<" ", "\n", "a">>
    /\ cursor = 1
    /\ sink0 = 1
    /\ status.val = <<"None">>
    /\ status.pos = 3
    /\ errors = Messages(2)

-----------------------------------------------------------------------------
(* SpecWs: parse_input on programs written without optional whitespace,   *)
(* and on the same programs with whitespace put between their tokens       *)

WsPieces == {"if0", "{1}", "else", "{42}", "let a=1;", "+", "-2"}
MaxWsPieces == 4

InitWs == Start(Texts(WsPieces, MaxWsPieces))

NextWs == Call_parse_input

SpecWs == InitWs /\ [][NextWs]_vars

\* the whitespace put between two tokens: a space, a tab, a newline, or
\* a space and a newline
Gaps == {<<" ">>, <<"\t">>, <<"\n">>, <<" ", "\n">>}

\* the text s from position j on, with w put in front of every position of T
RECURSIVE SpreadFrom(_, _, _, _)
SpreadFrom(s, T, w, j) ==
    (IF j \in T THEN w ELSE <<>>)
        \o (IF j > Len(s) THEN <<>> ELSE <<s[j]>> \o SpreadFrom(s, T, w, j + 1))

Spread(s, T, w) == SpreadFrom(s, T, w, 1)

\* where whitespace can go in the accepted text: in front of each token of
\* the derivation parse_input returned, and at the end
TokenBoundaries == status.toks \cup {Len(input) + 1}

\* C8: whitespace put between the tokens of an accepted program (at one
\* boundary, or at all of them) gives a program that is accepted with the
\* same AST.
WhitespaceInsensitive ==
    (rule = "parse_input" /\ status.k = "Ok") =>
        \A w \in Gaps :
            \A T \in {{b} : b \in TokenBoundaries} \cup {TokenBoundaries} :
                LET spaced == parse_input(Spread(input, T, w))
                IN  /\ spaced.k = "Ok"
                    /\ spaced.val = status.val
                    /\ spaced.n = status.n

\* "if0{1}else{42}" and "if 0 { 1 } else { 42 } " are the same conditional
ConditionalSpacedOut ==
    /\ rule = "parse_input"
    /\ parts = <<"if0", "{1}", "else", "{42}">>
    /\ status.k = "Ok"
    /\ status.val =
           ExprKind_if_(ExprKind_integer(0), ExprKind_integer(1),
                        ExprKind_integer(42))
    /\ Spread(input, TokenBoundaries, <<" ">>) = Chars(" if 0 { 1 } else { 42 } ")
    /\ parse_input(Chars("if 0 { 1 } else { 42 }")).val = status.val

-----------------------------------------------------------------------------
(* SpecRepeat: parse_input on a text, and one iteration of each repetition *)
(* (many1(binding) and the two fold_many1) at any cursor of the text.  A   *)
(* rule of this model is an operator: it has a value exactly when the      *)
(* recursion of the code ends, and the value says how it ended.            *)

RepeatPieces == {"let a 1;", "let b", "1+1", "a*a", " ", "2147483648"}
MaxRepeatPieces == 3

InitRepeat == StartAt(Texts(RepeatPieces, MaxRepeatPieces), 0)

NextRepeat ==
    \/ cursor = 1 /\ Call_parse_input
    \/ Call_binding
    \/ Call_operator_operand
    \/ Call_star_atomic_expr

SpecRepeat == InitRepeat /\ [][NextRepeat]_vars

\* the bodies of the repetitions: many1(binding), fold_many1(tuple(..))
IterationRules == {"binding", "operator_operand", "star_atomic_expr"}

\* parse_input returned: Ok(expr) or Err
ParseInputReturns ==
    rule = "parse_input" => status.k \in {"Ok"} \cup TerminalFailure

\* an iteration of a repetition that succeeds moves the cursor forward
IterationsConsume ==
    (rule \in IterationRules /\ status.k = "Ok") => status.pos > cursor

\* C11: parsing always terminates: on every text parse_input returns, a
\* success or a failure, and every iteration of a repetition that succeeds
\* consumes at least one character, also when expect recovered from a
\* missing token without consuming any.
ParsingTerminates == ParseInputReturns /\ IterationsConsume

\* "let b": a binding that succeeds with both tokens missing
BindingWithBothTokensMissing ==
    /\ rule = "binding"
    /\ parts = <<"let b", " ", "1+1">>
    /\ cursor = 1
    /\ status.k = "Ok"
    /\ status.miss = 2
    /\ status.pos > cursor

=============================================================================
